---- MODULE Spec2Model ----
(***************************************************************************)
(* yare-bun-sync (src/index.ts): the session / build / sync orchestration. *)
(*                                                                         *)
(* One run of the `sync` command is modelled as a set of cycles            *)
(* (invocations of buildAndSync).  Cycle 1 is the one the command awaits;  *)
(* cycles 2.. are started by the fs.watch callback.  Every `await` of the  *)
(* source is a step boundary: the code between two awaits runs atomically  *)
(* (single-threaded event loop), and cycles interleave only at awaits.     *)
(***************************************************************************)
EXTENDS Naturals, Sequences, FiniteSets, TLC

\* ------------------------------------------------------------------ bounds
MaxCycles == 2        \* cycles started in one run: the first + watch-triggered ones
MaxFails == 2         \* failed sync.login attempts the collaborator produces in one run

\* ------------------------------------------------------- program constants
ExitNotFound == 9     \* process.exit(9)
ExitBuildError == 1   \* process.exit(1)
ExitUncaught == 1     \* the runtime's exit code for an uncaught error

\* -------------------------------------------------------------- data model
\* Slots for the cycles of one run.  Spec starts at most MaxCycles of them; the
\* watch-mode specification SpecWatch, which fixes more of the inputs, one more.
Cycles == 1..(MaxCycles + 1)

\* type Session = { user_id, session_id }
\* "s1": issued by an earlier run and still live; "s2": issued by sync.login in this
\* run; "old": one the service no longer accepts.
Session == [user_id : {"u1"}, session_id : {"s1", "s2", "old"}]
NoSession == [user_id |-> "", session_id |-> ""]    \* null / undefined

\* sync.verifySession: the collaborator's predicate; the core never looks inside.
LiveIds == {"s1", "s2"}
verifySession(s) == s \in Session /\ s.session_id \in LiveIds

\* The session file's content is text.  JSON.stringify(session) writes the
\* record's keys and values; file.json() parses text back or throws.
NoFile == <<"ENOENT">>
JSONstringify(s) == <<"{", "user_id", s.user_id, "session_id", s.session_id, "}">>
SyntaxError == [user_id |-> "SyntaxError", session_id |-> "SyntaxError"]
JSONparse(text) ==
    IF /\ Len(text) = 6
       /\ text[1] = "{" /\ text[2] = "user_id" /\ text[4] = "session_id" /\ text[6] = "}"
    THEN [user_id |-> text[3], session_id |-> text[5]]
    ELSE SyntaxError
Truncated == <<"{", "user_id">>          \* a file that is not JSON

\* { username, password } typed at the two prompts of getCreds(): what the user
\* types at the k-th attempt of a login differs from attempt to attempt.
Passwords == <<"pw1", "pw2", "pw3", "pw4", "pw5">>
Typed(k) == [username |-> "ann", password |-> Passwords[k]]
NoCreds == [username |-> "", password |-> ""]

\* GameTarget = { server, id }; getGames returns a list of them
g1 == [server |-> "a", id |-> "1"]
g2 == [server |-> "b", id |-> "2"]
GameLists == {<< >>, <<g1, g2>>}

\* games.map((g) => (g ? `${g.server}/${g.id}` : g)): one list of text pieces per game
NullGame == [server |-> "null", id |-> "null"]      \* a falsy entry of the list
\* Mutant: id and server swapped in the template.
RenderGame_Swapped(g) == IF g # NullGame THEN <<g.id, "/", g.server>> ELSE << >>
RenderGame(g) == IF g # NullGame THEN <<g.server, "/", g.id>> ELSE << >>
\* Array.prototype.join(", ")
RECURSIVE Join(_)
Join(parts) ==
    IF parts = << >> THEN << >>
    ELSE IF Len(parts) = 1 THEN parts[1]
    ELSE parts[1] \o <<", ">> \o Join(Tail(parts))
MapRender(games) == [i \in 1..Len(games) |-> RenderGame(games[i])]
UploadedMessage(games) == <<"Uploaded your code to these games: ">> \o Join(MapRender(games))

\* ------------------------------------------------------------------- state
VARIABLES
    watch,           \* options.watch
    entryExists,     \* whether options.file exists on disk
    watchDirExists,  \* whether options.watchDir exists on disk
    YARE_LOGIN,      \* Bun.env.YARE_LOGIN ("" when unset)
    YARE_PASSWORD,   \* Bun.env.YARE_PASSWORD ("" when unset)
    sessionFile,     \* text of SESSION_FILE_PATH, or NoFile
    envFile,         \* entries appended to the project's env file
    distFile,        \* ./dist output: the cycle whose build wrote it last (0: none)
    cyc,             \* per cycle: the position in buildAndSync and its locals
    main,            \* position of the sync command's action
    logoutStatus,    \* how the last run of the logout command ended
    events,          \* filesystem notifications delivered to the fs.watch callback
    exitCode         \* << >> while the process lives, <<code>> once it has exited

fsVars == <<entryExists, watchDirExists, sessionFile, envFile, distFile>>
optVars == <<watch, YARE_LOGIN, YARE_PASSWORD>>
vars == <<watch, entryExists, watchDirExists, YARE_LOGIN, YARE_PASSWORD,
          sessionFile, envFile, distFile, cyc, main, logoutStatus, events, exitCode>>
cmdVars == <<logoutStatus>>

IdleCycle ==
    [pc |-> "idle",
     \* locals of buildAndSync and login
     session |-> NoSession, creds |-> NoCreds, games |-> << >>,
     \* what the cycle observed
     entry |-> "unchecked",       \* Bun.file(file).exists(): "found" / "missing"
     built |-> "no",              \* Bun.build: "ok" / "threw"
     cached |-> FALSE,            \* getExistingSession returned the session
     successful |-> "none",       \* sync.sendCode's answer: "true" / "false"
     error |-> "none",            \* what rejected buildAndSync's promise
     status |-> <<"none">>,       \* the last spinner line
     \* arguments of the collaborator calls
     gamesUser |-> "", text |-> 0, sentGames |-> << >>, sentSession |-> NoSession,
     \* calls made so far
     builds |-> 0, loads |-> 0, logins |-> 0, fails |-> 0, prompts |-> 0,
     saves |-> 0, gets |-> 0, sends |-> 0]

Init ==
    /\ watch \in BOOLEAN
    /\ entryExists \in BOOLEAN
    /\ watchDirExists \in BOOLEAN
    /\ YARE_LOGIN \in {"", "ann"}
    /\ YARE_PASSWORD \in {"", "pw1"}
    /\ sessionFile \in {NoFile, Truncated}
                       \cup {JSONstringify(s) : s \in {x \in Session : x.session_id # "s2"}}
    /\ envFile = << >>
    /\ distFile = 0
    /\ cyc = [c \in Cycles |-> IF c = 1 THEN [IdleCycle EXCEPT !.pc = "start"] ELSE IdleCycle]
    /\ main = "awaitFirst"
    /\ logoutStatus = "none"
    /\ events = 0
    /\ exitCode = << >>

Alive == exitCode = << >>

\* ------------------------------------------------- the sync command's action
\* `await buildAndSync(options)` of the action has resolved (cycle 1), or the one of
\* the watch callback has (later cycles, nothing follows it).  The continuation
\* runs in the same turn of the event loop as the cycle's last statement.
\* Variant: fs.watch is called without the fs.existsSync test.
ReturnFrom_NoDirCheck(c) ==
    IF c = 1
    THEN IF watch
         THEN /\ main' = "watching"
              /\ exitCode' = exitCode
         ELSE /\ main' = "returned"
              /\ exitCode' = <<0>>
    ELSE /\ main' = main
         /\ exitCode' = exitCode

ReturnFrom(c) ==
    IF c = 1
    THEN IF watch
         THEN IF ~watchDirExists
              THEN /\ main' = "watchFailed"
                   /\ exitCode' = <<ExitNotFound>>
              ELSE /\ main' = "watching"
                   /\ exitCode' = exitCode
         ELSE /\ main' = "returned"
              /\ exitCode' = <<0>>
    ELSE /\ main' = main
         /\ exitCode' = exitCode

\* buildAndSync's promise rejected.  Cycle 1: the rejection reaches the top-level
\* `await program.parseAsync()` and the process dies.  A watch callback's rejection
\* is unhandled: the runtime either ends the process or only logs it.
RejectFrom(c) ==
    IF c = 1
    THEN /\ main' = "rejected"
         /\ exitCode' = <<ExitUncaught>>
    ELSE /\ main' = main
         /\ exitCode' \in {exitCode, <<ExitUncaught>>}

Throw(c, what) ==
    /\ cyc' = [cyc EXCEPT ![c].pc = "threw", ![c].error = what]
    /\ RejectFrom(c)

\* ------------------------------------------------------------- buildAndSync
\* Mutant: the missing entrypoint is reported but process.exit(9) is left out.
CheckEntrypoint_NoExit(c) ==
    /\ Alive
    /\ cyc[c].pc = "start"
    /\ cyc' = [cyc EXCEPT ![c].pc = "build",
                          ![c].entry = IF entryExists THEN "found" ELSE "missing",
                          ![c].status = IF entryExists THEN @
                                        ELSE <<"fail", "Could not find entrypoint">>,
                          ![c].builds = @ + 1]
    /\ UNCHANGED <<fsVars, optVars, events, cmdVars, main, exitCode>>

\* `await Bun.file(file).exists()` has answered.
CheckEntrypoint(c) ==
    /\ Alive
    /\ cyc[c].pc = "start"
    /\ IF ~entryExists
       THEN /\ cyc' = [cyc EXCEPT ![c].pc = "exited", ![c].entry = "missing",
                                  ![c].status = <<"fail", "Could not find entrypoint">>]
            /\ exitCode' = <<ExitNotFound>>
       ELSE /\ cyc' = [cyc EXCEPT ![c].pc = "build", ![c].entry = "found",
                                  ![c].builds = @ + 1]
            /\ exitCode' = exitCode
    /\ UNCHANGED <<fsVars, optVars, events, cmdVars, main>>

\* Bun.build resolved and outputs[0].path was read: the output is on disk.
\* getExistingSession() is entered and waits for file.exists().
BuildOk(c) ==
    /\ Alive
    /\ cyc[c].pc = "build"
    /\ distFile' = c
    /\ cyc' = [cyc EXCEPT ![c].pc = "load", ![c].built = "ok",
                          ![c].status = <<"succeed", "Built">>,
                          ![c].loads = @ + 1]
    /\ UNCHANGED <<entryExists, watchDirExists, sessionFile, envFile, optVars, events, cmdVars, main, exitCode>>

\* Mutant: the catch reports the build error but process.exit(1) is left out.
BuildThrows_NoExit(c) ==
    /\ Alive
    /\ cyc[c].pc = "build"
    /\ cyc' = [cyc EXCEPT ![c].pc = "load", ![c].built = "threw",
                          ![c].status = <<"succeed", "Built">>,
                          ![c].loads = @ + 1]
    /\ UNCHANGED <<fsVars, optVars, events, cmdVars, main, exitCode>>

\* Anything thrown inside the try block.
\* Variant: the catch reports the build error and ends this cycle only.
BuildThrows_ReturnOnly(c) ==
    /\ Alive
    /\ cyc[c].pc = "build"
    /\ cyc' = [cyc EXCEPT ![c].pc = "done", ![c].built = "threw",
                          ![c].status = <<"fail", "Build failed: Unexpected error">>]
    /\ ReturnFrom(c)
    /\ UNCHANGED <<fsVars, optVars, events, cmdVars>>

BuildThrows(c) ==
    /\ Alive
    /\ cyc[c].pc = "build"
    /\ cyc' = [cyc EXCEPT ![c].pc = "exited", ![c].built = "threw",
                          ![c].status = <<"fail", "Build failed: Unexpected error">>]
    /\ exitCode' = <<ExitBuildError>>
    /\ UNCHANGED <<fsVars, optVars, events, cmdVars, main>>

\* ------------------------------------------------------- getExistingSession
\* What getExistingSession makes of the file's text once it is known to exist:
\* file.json() throws on text that is not JSON; a parsed session is returned
\* only if sync.verifySession accepts it; otherwise null.
\* Mutant: the verifySession test is inverted.
getExistingSession_Inverted(text) ==
    LET session == JSONparse(text) IN
    IF session = SyntaxError THEN [kind |-> "throw", session |-> NoSession]
    ELSE IF ~verifySession(session) THEN [kind |-> "session", session |-> session]
    ELSE [kind |-> "null", session |-> NoSession]

\* Mutant: the parsed session is returned without asking verifySession.
getExistingSession_NoVerify(text) ==
    LET session == JSONparse(text) IN
    IF session = SyntaxError THEN [kind |-> "throw", session |-> NoSession]
    ELSE [kind |-> "session", session |-> session]

getExistingSession(text) ==
    LET session == JSONparse(text) IN
    IF session = SyntaxError THEN [kind |-> "throw", session |-> NoSession]
    ELSE IF verifySession(session) THEN [kind |-> "session", session |-> session]
    ELSE [kind |-> "null", session |-> NoSession]

\* login(envFilePath, spinner) up to its first await.  With YARE_LOGIN or
\* YARE_PASSWORD falsy: the warning, getCreds() (the two prompts) and the first
\* sync.login call.  Otherwise: the one sync.login call with the env's values.
EnterLogin(r) ==
    IF YARE_LOGIN = "" \/ YARE_PASSWORD = ""
    THEN [r EXCEPT !.pc = "interactive",
                   !.status = <<"warn", "Couldn't find login credentials.">>,
                   !.prompts = @ + 1, !.creds = Typed(1), !.logins = @ + 1]
    ELSE [r EXCEPT !.pc = "automation",
                   !.creds = [username |-> YARE_LOGIN, password |-> YARE_PASSWORD],
                   !.logins = @ + 1]

\* `loginSpinner.succeed(...)`, then sync.getGames(session.user_id) is called.
EnterGetGames(r) ==
    [r EXCEPT !.pc = "games",
              !.status = <<"succeed", "Logged in as", r.session.user_id>>,
              !.gamesUser = r.session.user_id,
              !.gets = @ + 1]

\* file.exists() answered false: getExistingSession returns null, login begins.
LoadMissing(c) ==
    /\ Alive
    /\ cyc[c].pc = "load"
    /\ sessionFile = NoFile
    /\ cyc' = [cyc EXCEPT ![c] = EnterLogin(@)]
    /\ UNCHANGED <<fsVars, optVars, events, cmdVars, main, exitCode>>

\* file.exists() answered true: file.json() is awaited.
LoadExists(c) ==
    /\ Alive
    /\ cyc[c].pc = "load"
    /\ sessionFile # NoFile
    /\ cyc' = [cyc EXCEPT ![c].pc = "json"]
    /\ UNCHANGED <<fsVars, optVars, events, cmdVars, main, exitCode>>

\* Variant: a file whose session is no longer valid is removed by the load.
LoadJson_DeletesInvalid(c) ==
    /\ Alive
    /\ cyc[c].pc = "json"
    /\ LET got == getExistingSession(sessionFile) IN
       CASE got.kind = "throw" ->
              /\ Throw(c, "getExistingSession")
              /\ sessionFile' = sessionFile
         [] got.kind = "session" ->
              /\ cyc' = [cyc EXCEPT ![c] =
                            EnterGetGames([@ EXCEPT !.session = got.session, !.cached = TRUE])]
              /\ UNCHANGED <<main, exitCode, sessionFile>>
         [] got.kind = "null" ->
              /\ cyc' = [cyc EXCEPT ![c] = EnterLogin(@)]
              /\ sessionFile' = NoFile
              /\ UNCHANGED <<main, exitCode>>
    /\ UNCHANGED <<entryExists, watchDirExists, envFile, distFile, optVars, events, cmdVars>>

\* file.json() settled.
LoadJson(c) ==
    /\ Alive
    /\ cyc[c].pc = "json"
    /\ LET got == getExistingSession(sessionFile) IN
       CASE got.kind = "throw" -> Throw(c, "getExistingSession")
         [] got.kind = "session" ->
              /\ cyc' = [cyc EXCEPT ![c] =
                            EnterGetGames([@ EXCEPT !.session = got.session, !.cached = TRUE])]
              /\ UNCHANGED <<main, exitCode>>
         [] got.kind = "null" ->
              /\ cyc' = [cyc EXCEPT ![c] = EnterLogin(@)]
              /\ UNCHANGED <<main, exitCode>>
    /\ UNCHANGED <<fsVars, optVars, events, cmdVars>>

\* -------------------------------------------------------------------- login
\* sync.login resolves with a session the service has just issued.
Issued == {s \in Session : s.session_id = "s2"}

RECURSIVE FailedLogins(_)
FailedLogins(S) ==
    IF S = {} THEN 0
    ELSE LET c == CHOOSE x \in S : TRUE IN cyc[c].fails + FailedLogins(S \ {c})

\* Mutant: no try/catch around sync.login in the loop.
InteractiveLoginFails_Propagates(c) ==
    /\ Alive
    /\ cyc[c].pc = "interactive"
    /\ FailedLogins(Cycles) < MaxFails
    /\ Throw(c, "login")
    /\ UNCHANGED <<fsVars, optVars, events, cmdVars>>

\* Mutant: the catch leaves a placeholder in `session`, which ends the loop.
InteractiveLoginFails_ExitsLoop(c) ==
    /\ Alive
    /\ cyc[c].pc = "interactive"
    /\ FailedLogins(Cycles) < MaxFails
    /\ cyc' = [cyc EXCEPT ![c].status = <<"fail", "Error logging in. Try again.">>,
                          ![c].fails = @ + 1, ![c].pc = "saving",
                          ![c].session = [user_id |-> "", session_id |-> "placeholder"]]
    /\ UNCHANGED <<fsVars, optVars, events, cmdVars, main, exitCode>>

\* Interactive loop: sync.login threw; the catch reports it, `session` is still
\* unset, so the loop prompts again and calls sync.login again.
InteractiveLoginFails(c) ==
    /\ Alive
    /\ cyc[c].pc = "interactive"
    /\ FailedLogins(Cycles) < MaxFails
    /\ cyc' = [cyc EXCEPT ![c].status = <<"fail", "Error logging in. Try again.">>,
                          ![c].fails = @ + 1,
                          ![c].prompts = @ + 1, ![c].creds = Typed(cyc[c].logins + 1),
                          ![c].logins = @ + 1]
    /\ UNCHANGED <<fsVars, optVars, events, cmdVars, main, exitCode>>

\* Variant: "Yes" saves what was typed at the first prompt, not at the last.
InteractiveLoginOk_FirstCreds(c) ==
    /\ Alive
    /\ cyc[c].pc = "interactive"
    /\ \E s \in Issued, saveCreds \in BOOLEAN :
          /\ cyc' = [cyc EXCEPT ![c].pc = "saving", ![c].session = s]
          /\ envFile' = IF saveCreds
                        THEN Append(envFile, <<"# Yare Credentials",
                                               "YARE_LOGIN=", Typed(1).username,
                                               "YARE_PASSWORD=", Typed(1).password>>)
                        ELSE envFile
    /\ UNCHANGED <<entryExists, watchDirExists, sessionFile, distFile, optVars, events, cmdVars, main, exitCode>>

\* Interactive loop: sync.login resolved; the loop ends, the selection is shown,
\* "Yes" appends the credentials to the env file, saveSession is awaited.
InteractiveLoginOk(c) ==
    /\ Alive
    /\ cyc[c].pc = "interactive"
    /\ \E s \in Issued, saveCreds \in BOOLEAN :
          /\ cyc' = [cyc EXCEPT ![c].pc = "saving", ![c].session = s]
          /\ envFile' = IF saveCreds
                        THEN Append(envFile, <<"# Yare Credentials",
                                               "YARE_LOGIN=", cyc[c].creds.username,
                                               "YARE_PASSWORD=", cyc[c].creds.password>>)
                        ELSE envFile
    /\ UNCHANGED <<entryExists, watchDirExists, sessionFile, distFile, optVars, events, cmdVars, main, exitCode>>

\* Automation path: the one sync.login call resolved; saveSession is awaited.
AutomationLoginOk(c) ==
    /\ Alive
    /\ cyc[c].pc = "automation"
    /\ \E s \in Issued : cyc' = [cyc EXCEPT ![c].pc = "saving", ![c].session = s]
    /\ UNCHANGED <<fsVars, optVars, events, cmdVars, main, exitCode>>

\* Mutant: the automation path calls sync.login again after a failure.
AutomationLoginThrows_Retry(c) ==
    /\ Alive
    /\ cyc[c].pc = "automation"
    /\ cyc[c].logins <= MaxFails
    /\ cyc' = [cyc EXCEPT ![c].logins = @ + 1]
    /\ UNCHANGED <<fsVars, optVars, events, cmdVars, main, exitCode>>

\* Automation path: sync.login threw; nothing catches it.
AutomationLoginThrows(c) ==
    /\ Alive
    /\ cyc[c].pc = "automation"
    /\ Throw(c, "login")
    /\ UNCHANGED <<fsVars, optVars, events, cmdVars>>

\* Bun.write(SESSION_FILE_PATH, JSON.stringify(session)) completed; login
\* returns the session (its locals are gone) and buildAndSync goes on to getGames.
saveSession(c) ==
    /\ Alive
    /\ cyc[c].pc = "saving"
    /\ sessionFile' = JSONstringify(cyc[c].session)
    /\ cyc' = [cyc EXCEPT ![c] = EnterGetGames([@ EXCEPT !.saves = @ + 1, !.creds = NoCreds])]
    /\ UNCHANGED <<entryExists, watchDirExists, envFile, distFile, optVars, events, cmdVars, main, exitCode>>

\* ------------------------------------------------------- enumerate + upload
\* Mutant: the `!games.length` test is left out.
GetGames_NoEmptyCheck(c) ==
    /\ Alive
    /\ cyc[c].pc = "games"
    /\ \E games \in GameLists : cyc' = [cyc EXCEPT ![c].pc = "text", ![c].games = games]
    /\ UNCHANGED <<fsVars, optVars, events, cmdVars, main, exitCode>>

\* sync.getGames resolved.  Empty: the warning, and the cycle returns.
\* Otherwise distFile.text() is awaited.
GetGames(c) ==
    /\ Alive
    /\ cyc[c].pc = "games"
    /\ \E games \in GameLists :
          IF Len(games) = 0
          THEN /\ cyc' = [cyc EXCEPT ![c].pc = "done", ![c].games = games,
                                     ![c].status = <<"warn", "No current games.">>]
               /\ ReturnFrom(c)
          ELSE /\ cyc' = [cyc EXCEPT ![c].pc = "text", ![c].games = games]
               /\ UNCHANGED <<main, exitCode>>
    /\ UNCHANGED <<fsVars, optVars, events, cmdVars>>

\* distFile.text() resolved with what ./dist holds now; sync.sendCode is called.
ReadDist(c) ==
    /\ Alive
    /\ cyc[c].pc = "text"
    /\ cyc' = [cyc EXCEPT ![c].pc = "sending", ![c].text = distFile,
                          ![c].sentGames = cyc[c].games,
                          ![c].sentSession = cyc[c].session, ![c].sends = @ + 1]
    /\ UNCHANGED <<fsVars, optVars, events, cmdVars, main, exitCode>>

\* Variant: a failed upload ends the process, as a failed build does.
SendCodeReturns_ExitOnFail(c) ==
    /\ Alive
    /\ cyc[c].pc = "sending"
    /\ \E successful \in BOOLEAN :
          /\ cyc' = [cyc EXCEPT ![c].pc = IF successful THEN "done" ELSE "exited",
                                ![c].successful = IF successful THEN "true" ELSE "false",
                                ![c].status = IF successful
                                              THEN <<"succeed">> \o UploadedMessage(cyc[c].games)
                                              ELSE <<"fail", "Upload to yare failed.">>]
          /\ IF successful
             THEN ReturnFrom(c)
             ELSE main' = main /\ exitCode' = <<ExitBuildError>>
    /\ UNCHANGED <<fsVars, optVars, events, cmdVars>>

\* sync.sendCode resolved with its aggregate boolean.
SendCodeReturns(c) ==
    /\ Alive
    /\ cyc[c].pc = "sending"
    /\ \E successful \in BOOLEAN :
          cyc' = [cyc EXCEPT ![c].pc = "done",
                             ![c].successful = IF successful THEN "true" ELSE "false",
                             ![c].status = IF successful
                                           THEN <<"succeed">> \o UploadedMessage(cyc[c].games)
                                           ELSE <<"fail", "Upload to yare failed.">>]
    /\ ReturnFrom(c)
    /\ UNCHANGED <<fsVars, optVars, events, cmdVars>>

\* ------------------------------------------------------------------- watch
\* A filesystem notification: the fs.watch callback calls buildAndSync(options).
\* The change behind it may have removed or restored the entrypoint.
InFlight(r) == r.pc \notin {"idle", "done", "exited", "threw"}

\* Variant: a notification that arrives while a cycle is running is dropped.
FsEventUpTo_Coalesced(n) ==
    /\ Alive
    /\ main = "watching"
    /\ \E c \in 1..n :
          /\ cyc[c].pc = "idle"
          /\ \A d \in Cycles : d < c => cyc[d].pc # "idle"
          /\ cyc' = IF \E d \in Cycles : InFlight(cyc[d])
                    THEN cyc
                    ELSE [cyc EXCEPT ![c].pc = "start"]
    /\ events' = events + 1
    /\ entryExists' \in BOOLEAN
    /\ UNCHANGED <<watchDirExists, sessionFile, envFile, distFile, optVars, cmdVars, main, exitCode>>

FsEventUpTo(n) ==
    /\ Alive
    /\ main = "watching"
    /\ \E c \in 1..n :
          /\ cyc[c].pc = "idle"
          /\ \A d \in Cycles : d < c => cyc[d].pc # "idle"
          /\ cyc' = [cyc EXCEPT ![c].pc = "start"]
    /\ events' = events + 1
    /\ entryExists' \in BOOLEAN
    /\ UNCHANGED <<watchDirExists, sessionFile, envFile, distFile, optVars, cmdVars, main, exitCode>>

FsEvent == FsEventUpTo(MaxCycles)
FsEventWatch == FsEventUpTo(MaxCycles + 1)

\* ------------------------------------------------------------------ logout
\* The `logout` command, run as a process of its own, at any time and any
\* number of times beside the `sync` run: fs.unlinkSync throws when the file is
\* not there, and nothing catches it.
\* Variant: the status is reported but the file is left in place.
Logout_KeepsFile ==
    /\ IF sessionFile = NoFile
       THEN logoutStatus' = "threw"
       ELSE logoutStatus' = "Logged out"
    /\ UNCHANGED <<fsVars, optVars, events, cyc, main, exitCode>>

\* Variant: a missing file is not an error (as fs.rmSync with force would do).
Logout_Silent ==
    /\ logoutStatus' = "Logged out"
    /\ sessionFile' = NoFile
    /\ UNCHANGED <<entryExists, watchDirExists, envFile, distFile, optVars, events, cyc, main, exitCode>>

Logout ==
    /\ IF sessionFile = NoFile
       THEN /\ logoutStatus' = "threw"
            /\ sessionFile' = sessionFile
       ELSE /\ logoutStatus' = "Logged out"
            /\ sessionFile' = NoFile
    /\ UNCHANGED <<entryExists, watchDirExists, envFile, distFile, optVars, events, cyc, main, exitCode>>

Next ==
    \/ \E c \in Cycles :
          \/ CheckEntrypoint(c)
          \/ BuildOk(c)
          \/ BuildThrows(c)
          \/ LoadMissing(c)
          \/ LoadExists(c)
          \/ LoadJson(c)
          \/ InteractiveLoginFails(c)
          \/ InteractiveLoginOk(c)
          \/ AutomationLoginOk(c)
          \/ AutomationLoginThrows(c)
          \/ saveSession(c)
          \/ GetGames(c)
          \/ ReadDist(c)
          \/ SendCodeReturns(c)
    \/ FsEvent
    \/ Logout

Spec == Init /\ [][Next]_vars

\* Watch-mode runs: --watch given, entrypoint and watch directory present at the
\* start, credentials either both in the env or both missing, and a session
\* file that is valid or absent.  One more cycle than Spec, so that two
\* watch-triggered cycles can be in flight together.
InitWatch ==
    /\ Init
    /\ watch /\ entryExists /\ watchDirExists
    /\ (YARE_LOGIN = "") = (YARE_PASSWORD = "")
    /\ sessionFile \in {NoFile, JSONstringify([user_id |-> "u1", session_id |-> "s1"])}

NextWatch ==
    \/ \E c \in Cycles :
          \/ CheckEntrypoint(c)
          \/ BuildOk(c)
          \/ BuildThrows(c)
          \/ LoadMissing(c)
          \/ LoadExists(c)
          \/ LoadJson(c)
          \/ InteractiveLoginFails(c)
          \/ InteractiveLoginOk(c)
          \/ AutomationLoginOk(c)
          \/ AutomationLoginThrows(c)
          \/ saveSession(c)
          \/ GetGames(c)
          \/ ReadDist(c)
          \/ SendCodeReturns(c)
    \/ FsEventWatch
    \/ Logout

SpecWatch == InitWatch /\ [][NextWatch]_vars

\* ====================================================================== claims
Automation == YARE_LOGIN # "" /\ YARE_PASSWORD # ""
Interactive == ~Automation
PostLogin == {"games", "text", "sending", "done"}
OldSession == [user_id |-> "u1", session_id |-> "old"]
NoCalls(r) == r.loads = 0 /\ r.logins = 0 /\ r.prompts = 0 /\ r.gets = 0 /\ r.sends = 0

\* C1: a cycle that finds its entrypoint file missing ends the process with exit
\* code 9 and has made no build call, no session load, no login attempt (nor
\* prompt), no getGames call and no sendCode call.
C1_MissingEntrypointExits9 ==
    \A c \in Cycles :
        cyc[c].entry = "missing" =>
            /\ exitCode = <<ExitNotFound>>
            /\ cyc[c].pc = "exited"
            /\ cyc[c].builds = 0
            /\ cyc[c].built = "no"
            /\ NoCalls(cyc[c])
C1_Witness ==
    \E c \in Cycles : cyc[c].entry = "missing" /\ exitCode = <<ExitNotFound>>

\* C2: sendCode has been invoked by a cycle only if that cycle's build completed
\* without throwing; a cycle whose build threw ended the process with exit code 1
\* and made no session load, login, getGames or sendCode call.
C2_UploadOnlyAfterBuild ==
    \A c \in Cycles :
        /\ cyc[c].sends > 0 => cyc[c].built = "ok"
        /\ cyc[c].built = "threw" =>
              /\ exitCode = <<ExitBuildError>>
              /\ cyc[c].pc = "exited"
              /\ NoCalls(cyc[c])
C2_Witness ==
    \E c, d \in Cycles :
        /\ cyc[c].sends > 0 /\ cyc[c].built = "ok"
        /\ cyc[d].built = "threw" /\ exitCode = <<ExitBuildError>>

\* C3: when a cycle whose build succeeded reads a session file that exists and
\* holds a session verifySession accepts, it takes that session, calls getGames
\* with it at once, and makes no sync.login call and shows no prompt; the session
\* it later hands to sendCode is that same cached session.
C3_CacheReused ==
    \A c \in Cycles :
        cyc[c].cached =>
            /\ cyc[c].built = "ok"
            /\ cyc[c].logins = 0 /\ cyc[c].prompts = 0 /\ cyc[c].saves = 0
            /\ cyc[c].gets = 1 /\ cyc[c].gamesUser = cyc[c].session.user_id
            /\ cyc[c].sends > 0 => cyc[c].sentSession = cyc[c].session
C3_LoadStep ==
    \A c \in Cycles :
        /\ (/\ cyc[c].pc = "json" /\ cyc'[c].pc # "json"
            /\ sessionFile # NoFile
            /\ verifySession(JSONparse(sessionFile)))
           => /\ cyc'[c].cached
              /\ cyc'[c].session = JSONparse(sessionFile)
              /\ cyc'[c].pc = "games"
        /\ cyc[c].cached => cyc'[c].session = cyc[c].session
\* C3: the state part in every state, the load step in every step.
C3_CachedSessionNoLogin == [](C3_CacheReused) /\ [][C3_LoadStep]_vars
C3_Witness ==
    \E c \in Cycles :
        /\ cyc[c].cached /\ cyc[c].sends = 1 /\ cyc[c].pc = "done"
        /\ cyc[c].sentSession.session_id = "s1"

\* C4: getExistingSession never returns a session verifySession rejects: when
\* the file parses to such a session the cycle gets null and goes on to login.
C4_Returned ==
    \A c \in Cycles : cyc[c].cached => verifySession(cyc[c].session)
C4_LoadStep ==
    \A c \in Cycles :
        (/\ cyc[c].pc = "json" /\ cyc'[c].pc # "json"
         /\ JSONparse(sessionFile) \in Session
         /\ ~verifySession(JSONparse(sessionFile)))
        => /\ ~cyc'[c].cached
           /\ cyc'[c].session = NoSession
           /\ cyc'[c].pc \in {"interactive", "automation"}
           /\ cyc'[c].logins = 1
\* C4: what was returned is valid in every state; a rejected session gives null in every step.
C4_InvalidSessionIsAbsent == [](C4_Returned) /\ [][C4_LoadStep]_vars
C4_Witness ==
    /\ sessionFile = JSONstringify(OldSession)
    /\ \E c \in Cycles : cyc[c].pc \in {"interactive", "automation"} /\ cyc[c].loads = 1

\* C5: getExistingSession never raises an error: no cycle ends with an error
\* thrown by it (missing, unreadable and unverifiable files all give null).
C5_LoadNeverThrows ==
    \A c \in Cycles : cyc[c].error # "getExistingSession"

\* C6: with YARE_LOGIN and YARE_PASSWORD both set, a cycle that enters login
\* makes exactly one sync.login call and shows no prompt.  When the call resolves
\* the session is written to the session file and returned (getGames is called
\* with it); when it throws, the error leaves the cycle: no second call, no
\* prompt, and the throwing step leaves the session file as it was.
C6_OneCall ==
    Automation =>
        \A c \in Cycles :
            /\ cyc[c].prompts = 0 /\ cyc[c].fails = 0 /\ cyc[c].logins <= 1
            /\ cyc[c].pc \in {"automation", "saving"} => cyc[c].logins = 1 /\ cyc[c].saves = 0
            /\ (cyc[c].pc \in PostLogin /\ ~cyc[c].cached) => cyc[c].logins = 1 /\ cyc[c].saves = 1
            /\ cyc[c].error = "login" =>
                  /\ cyc[c].pc = "threw" /\ cyc[c].logins = 1 /\ cyc[c].saves = 0
                  /\ cyc[c].gets = 0 /\ cyc[c].sends = 0
C6_Step ==
    Automation =>
        \A c \in Cycles :
            /\ (cyc[c].pc = "automation" /\ cyc'[c] # cyc[c]) =>
                  \/ /\ cyc'[c].pc = "saving"
                     /\ cyc'[c].session # NoSession
                  \/ /\ cyc'[c].pc = "threw" /\ cyc'[c].error = "login"
                     /\ sessionFile' = sessionFile
            /\ (cyc[c].pc = "saving" /\ cyc'[c] # cyc[c]) =>
                  /\ sessionFile' # NoFile
                  /\ JSONparse(sessionFile') = cyc[c].session
                  /\ cyc'[c].session = cyc[c].session
                  /\ cyc'[c].pc = "games" /\ cyc'[c].gamesUser = cyc[c].session.user_id
            /\ cyc[c].pc = "threw" => cyc'[c] = cyc[c]
\* C6: the call counts in every state, the outcome of each login step in every step.
C6_AutomationLogin == [](C6_OneCall) /\ [][C6_Step]_vars
C6_Witness ==
    /\ Automation
    /\ \E c, d \in Cycles :
          /\ cyc[c].pc = "done" /\ ~cyc[c].cached /\ cyc[c].saves = 1
          /\ cyc[d].error = "login"

\* C7: with YARE_LOGIN or YARE_PASSWORD missing, a failed login attempt neither
\* ends the process nor leaves the cycle as an error: it is followed by a new
\* prompt and a new sync.login call.  A login that succeeds after n failures has
\* made n + 1 calls (each after its own prompt) and writes the session file once,
\* with the session of the call that succeeded; the failing steps write nothing.
C7_Counts ==
    Interactive =>
        \A c \in Cycles :
            /\ cyc[c].error # "login"
            /\ cyc[c].prompts = cyc[c].logins
            /\ cyc[c].pc = "interactive" =>
                  /\ cyc[c].logins = cyc[c].fails + 1
                  /\ cyc[c].saves = 0 /\ cyc[c].session = NoSession
            /\ cyc[c].pc = "saving" =>
                  cyc[c].logins = cyc[c].fails + 1 /\ cyc[c].saves = 0
            /\ (cyc[c].pc \in PostLogin /\ ~cyc[c].cached) =>
                  cyc[c].logins = cyc[c].fails + 1 /\ cyc[c].saves = 1
C7_Step ==
    Interactive =>
        \A c \in Cycles :
            /\ (cyc[c].pc = "interactive" /\ cyc'[c] # cyc[c]) =>
                  \/ /\ cyc'[c].pc = "interactive"              \* the attempt failed
                     /\ cyc'[c].fails = cyc[c].fails + 1
                     /\ cyc'[c].logins = cyc[c].logins + 1
                     /\ cyc'[c].prompts = cyc[c].prompts + 1
                     /\ exitCode' = exitCode
                     /\ sessionFile' = sessionFile
                  \/ /\ cyc'[c].pc = "saving"                   \* the attempt succeeded
                     /\ cyc'[c].session \in Issued
                     /\ cyc'[c].logins = cyc[c].logins
                     /\ sessionFile' = sessionFile
            /\ (cyc[c].pc = "saving" /\ cyc'[c] # cyc[c]) =>
                  /\ sessionFile' # NoFile
                  /\ JSONparse(sessionFile') = cyc[c].session
\* C7: the call counts in every state, the outcome of each attempt in every step.
C7_InteractiveRetry == [](C7_Counts) /\ [][C7_Step]_vars
C7_Witness ==
    /\ Interactive
    /\ Alive
    /\ \E c \in Cycles :
          /\ cyc[c].fails = 2 /\ cyc[c].logins = 3 /\ cyc[c].saves = 1
          /\ sessionFile = JSONstringify(cyc[c].session)

C9_NoUpload ==
    \A c \in Cycles :
        (cyc[c].pc \in {"text", "sending", "done"} /\ cyc[c].games = << >>) =>
            /\ cyc[c].pc = "done"
            /\ cyc[c].status = <<"warn", "No current games.">>
            /\ cyc[c].sends = 0
            /\ cyc[c].error = "none"
            /\ c = 1 => main # "awaitFirst"
C9_Step ==
    \A c \in Cycles :
        (cyc[c].pc = "games" /\ cyc'[c] # cyc[c] /\ cyc'[c].games = << >>) =>
            /\ cyc'[c].pc = "done"
            /\ IF c = 1
               THEN \/ exitCode' = << >> /\ main' = "watching"
                    \/ exitCode' = <<0>> /\ ~watch
                    \/ exitCode' = <<ExitNotFound>> /\ watch /\ ~watchDirExists
               ELSE exitCode' = << >>
\* C9: no upload after an empty list in every state, the normal return in every step.
C9_EmptyGamesWarns == [](C9_NoUpload) /\ [][C9_Step]_vars
C9_Witness ==
    /\ Alive
    /\ \E c \in Cycles :
          /\ cyc[c].pc = "done" /\ cyc[c].gets = 1 /\ cyc[c].games = << >>
          /\ cyc[c].status = <<"warn", "No current games.">>

\* C10: for a non-empty list from getGames, sendCode is called once with the
\* whole list; a false answer is reported as the failure, a true answer as the
\* success line naming every target once as server/id, in getGames' order,
\* separated by ", ".
Listed(body, games) ==
    /\ Len(body) = 4 * Len(games) - 1
    /\ \A i \in 1..Len(games) :
          /\ body[4 * i - 3] = games[i].server
          /\ body[4 * i - 2] = "/"
          /\ body[4 * i - 1] = games[i].id
          /\ i < Len(games) => body[4 * i] = ", "
C10_UploadReport ==
    \A c \in Cycles :
        (cyc[c].games # << >> /\ cyc[c].pc \in {"sending", "done"}) =>
            /\ cyc[c].sends = 1
            /\ cyc[c].sentGames = cyc[c].games
            /\ cyc[c].pc = "done" =>
                  /\ cyc[c].successful \in {"true", "false"}
                  /\ cyc[c].successful = "false" =>
                        cyc[c].status = <<"fail", "Upload to yare failed.">>
                  /\ cyc[c].successful = "true" =>
                        /\ Len(cyc[c].status) > 2
                        /\ cyc[c].status[1] = "succeed"
                        /\ cyc[c].status[2] = "Uploaded your code to these games: "
                        /\ Listed(SubSeq(cyc[c].status, 3, Len(cyc[c].status)), cyc[c].games)
C10_Witness ==
    \E c, d \in Cycles :
        /\ cyc[c].successful = "true" /\ cyc[c].games = <<g1, g2>>
        /\ cyc[c].status = <<"succeed", "Uploaded your code to these games: ",
                             "a", "/", "1", ", ", "b", "/", "2">>
        /\ cyc[d].successful = "false"

\* ---------------------------------------------------------------------- C11
UploadFailed(r) == r.successful = "false"
SlotFree == \E c \in Cycles : cyc[c].pc = "idle"

\* The step in which sendCode returns false: the cycle ends with the failure
\* report and does not end the process; the first cycle's return goes on to the
\* watch set-up (or, without --watch, lets the command return).
C11_Step ==
    \A c \in Cycles :
        (cyc[c].pc = "sending" /\ UploadFailed(cyc'[c])) =>
            /\ cyc'[c].pc = "done"
            /\ cyc'[c].status = <<"fail", "Upload to yare failed.">>
            /\ c > 1 => (main' = main /\ exitCode' = exitCode)
            /\ (c = 1 /\ watch /\ watchDirExists) => (main' = "watching" /\ exitCode' = << >>)
            /\ (c = 1 /\ ~watch) => (main' = "returned" /\ exitCode' = <<0>>)

\* After a failed upload the cycle is over with that report, and a live watcher
\* still starts a cycle on the next filesystem event.
C11_Kept ==
    \A c \in Cycles :
        UploadFailed(cyc[c]) =>
            /\ cyc[c].pc = "done"
            /\ cyc[c].status = <<"fail", "Upload to yare failed.">>
            /\ (Alive /\ main = "watching" /\ SlotFree) => ENABLED FsEventWatch

\* C11: when sendCode returns false, in the first cycle or a watch-triggered one,
\* the cycle ends with a reported upload failure and the process is not ended by
\* it; in watch mode the subscription is established or kept and later
\* filesystem events still start new cycles.
C11_UploadFailureKeepsWatching == [](C11_Kept) /\ [][C11_Step]_vars

\* The first cycle and a watch-triggered one both failed to upload, and a later
\* event has started another cycle.
C11_Witness ==
    /\ UploadFailed(cyc[1]) /\ UploadFailed(cyc[2])
    /\ cyc[3].pc = "build"
    /\ Alive /\ main = "watching"

\* ---------------------------------------------------------------------- C12
\* A logout that reports "Logged out" found the file and has deleted it; the file
\* goes away only that way.
C12_LogoutStep ==
    /\ (logoutStatus' = "Logged out" /\ logoutStatus # "Logged out") =>
            (sessionFile # NoFile /\ sessionFile' = NoFile)
    /\ (sessionFile # NoFile /\ sessionFile' = NoFile) => logoutStatus' = "Logged out"

\* A load whose file.exists() is answered while the file is gone returns null:
\* the cycle starts login without a session.
C12_LoadStep ==
    \A c \in Cycles :
        (cyc[c].pc = "load" /\ cyc'[c].pc # "load" /\ sessionFile = NoFile) =>
            /\ ~cyc'[c].cached
            /\ cyc'[c].session = NoSession
            /\ cyc'[c].pc \in {"interactive", "automation"}

\* The file comes back only when a cycle's successful login is saved.
C12_PersistStep ==
    (sessionFile = NoFile /\ sessionFile' # NoFile) =>
        \E c \in Cycles :
            /\ cyc[c].pc = "saving" /\ cyc'[c].pc = "games"
            /\ verifySession(cyc[c].session)
            /\ sessionFile' = JSONstringify(cyc[c].session)

\* C12: once logout has completed on a persisted session the file no longer
\* exists, a later getExistingSession returns absent, and this lasts until a
\* successful login persists a session again.
C12_LogoutRemovesSession == [][C12_LogoutStep /\ C12_LoadStep /\ C12_PersistStep]_vars

\* The first cycle used the cached session, logout deleted the file, and the
\* next cycle's load found nothing and went to login.
C12_Witness ==
    /\ cyc[1].cached
    /\ logoutStatus = "Logged out" /\ sessionFile = NoFile
    /\ cyc[2].pc \in {"interactive", "automation"} /\ cyc[2].session = NoSession
    /\ \A c \in Cycles : cyc[c].saves = 0

\* ---------------------------------------------------------------------- C13
\* With the file absent, a logout run that changes what was last reported ends
\* with the uncaught error, and the file stays absent.
C13_Step ==
    (sessionFile = NoFile /\ logoutStatus' # logoutStatus) =>
        (logoutStatus' = "threw" /\ sessionFile' = NoFile)

\* With the file absent, logout can always be run and then ends with the error.
C13_Fails ==
    sessionFile = NoFile => ENABLED (Logout /\ logoutStatus' = "threw")

\* C13: logout on an absent session file fails loudly: fs.unlinkSync throws,
\* nothing catches it, so the run ends with the error shown and never reports
\* "Logged out".
C13_LogoutAbsentFails == [](C13_Fails) /\ [][C13_Step]_vars

\* A second logout after a successful one: the file is gone and the run threw.
C13_Witness ==
    /\ sessionFile = NoFile /\ logoutStatus = "threw"
    /\ cyc[1].cached

\* ---------------------------------------------------------------------- C14
Subscribed == main = "watching"
NoLaterCycle == events = 0 /\ \A c \in Cycles : c > 1 => cyc[c].pc = "idle"

\* C14: with --watch, once the first cycle has returned (upload done, upload
\* failed or no games) the watch directory is tested: missing, the process ends
\* with exit code 9 and nothing is subscribed; present, fs.watch is subscribed.
\* Without --watch nothing is ever subscribed and no second cycle runs; there is
\* no second cycle without a subscription.
C14_WatchSetup ==
    /\ (watch /\ cyc[1].pc = "done") =>
            IF watchDirExists
            THEN Subscribed
            ELSE main = "watchFailed" /\ exitCode = <<ExitNotFound>>
    /\ Subscribed => (watch /\ watchDirExists /\ cyc[1].pc = "done")
    /\ main = "watchFailed" => (watch /\ ~watchDirExists /\ cyc[1].pc = "done")
    /\ ~watch => ~Subscribed
    /\ ~Subscribed => NoLaterCycle

\* The first cycle's upload failed and the watch directory is missing.
C14_Witness ==
    /\ UploadFailed(cyc[1])
    /\ main = "watchFailed" /\ exitCode = <<ExitNotFound>>

\* ---------------------------------------------------------------------- C15
Started == {c \in Cycles : cyc[c].pc # "idle"}

\* One cycle for the command's own call and one per notification.
C15_Count == Cardinality(Started) = 1 + events

\* A live watcher takes the next notification whatever the other cycles are doing.
C15_NotSerialized == (Alive /\ Subscribed /\ SlotFree) => ENABLED FsEventWatch

\* A notification is delivered to a live process and starts a cycle at its first
\* statement; it touches no other cycle.
C15_Step ==
    events' # events =>
        /\ Alive /\ events' = events + 1
        /\ \E c \in Cycles :
              /\ cyc[c].pc = "idle" /\ cyc'[c] = [IdleCycle EXCEPT !.pc = "start"]
              /\ \A d \in Cycles \ {c} : cyc'[d] = cyc[d]

\* C15: every filesystem notification starts a full cycle of its own, with no
\* debouncing, coalescing or serialization: the cycles started are one more than
\* the notifications delivered, and a notification that arrives while a cycle
\* is in flight starts a second one beside it.
C15_EveryEventStartsACycle == [](C15_Count /\ C15_NotSerialized) /\ [][C15_Step]_vars

\* Two watch-triggered cycles in flight together, the later one started while
\* the earlier was already waiting for an answer of the service.
C15_Witness ==
    /\ events = 2
    /\ cyc[2].pc = "sending" /\ cyc[3].pc = "build"

\* ---------------------------------------------------------------------- C16
\* C16: every started cycle ends in one of these ways only: it runs to completion
\* (no-games warning, upload success or upload failure reported), the process
\* is terminated, or a login error propagates out of it.  Stated for the ways a
\* cycle can have ended: in a live process a cycle that threw threw a login error.
C16_CycleOutcomes ==
    \A c \in Cycles :
        (Alive /\ cyc[c].pc = "threw") => cyc[c].error = "login"

\* ---------------------------------------------------------------------- C17
EnvEntry(creds) ==
    <<"# Yare Credentials", "YARE_LOGIN=", creds.username, "YARE_PASSWORD=", creds.password>>

\* The env file changes only in the step in which an interactive sync.login
\* resolves, and then by one entry appended after everything it held: the
\* credentials typed for that last, successful attempt.
C17_Step ==
    envFile' # envFile =>
        \E c \in Cycles :
            /\ Interactive
            /\ cyc[c].pc = "interactive" /\ cyc'[c].pc = "saving"
            /\ verifySession(cyc'[c].session)
            /\ cyc[c].logins = cyc[c].fails + 1
            /\ envFile' = Append(envFile, EnvEntry(Typed(cyc[c].logins)))

\* Nothing is written on the automation path, and there are no more entries
\* than interactive logins that succeeded.
C17_Entries ==
    /\ Automation => envFile = << >>
    /\ Len(envFile) <= Cardinality({c \in Cycles : cyc[c].prompts > 0 /\ cyc[c].pc \in {"saving"} \cup PostLogin})

\* C17: the env file is modified only by appending, only after a successful
\* interactive login answered "Yes"; the entry holds the username and password
\* of the successful attempt and the existing content is kept, so repeated
\* opt-ins accumulate; the automation path, a cached session, failed attempts
\* and "No" leave it unchanged.
C17_EnvFileAppendOnly == [](C17_Entries) /\ [][C17_Step]_vars

\* Two opt-ins in one run: the first after a failed attempt (second password),
\* the second, after a logout, at the first attempt.
C17_Witness ==
    /\ Len(envFile) = 2
    /\ envFile[1] = EnvEntry(Typed(2))
    /\ envFile[2] = EnvEntry(Typed(1))

\* ---------------------------------------------------------------------- C18
\* The one file holds nothing, text that is no session, or exactly one session.
C18_OneSession ==
    sessionFile \in {NoFile, Truncated} \cup {JSONstringify(x) : x \in Session}

\* The file changes only when a cycle's saveSession writes the session its login
\* has just obtained, replacing all of the old text, or when logout deletes it.
C18_Step ==
    sessionFile' # sessionFile =>
        \/ \E c \in Cycles :
              /\ cyc[c].pc = "saving" /\ cyc'[c].pc = "games"
              /\ cyc[c].logins > 0 /\ ~cyc[c].cached
              /\ verifySession(cyc[c].session)
              /\ sessionFile' = JSONstringify(cyc[c].session)
        \/ /\ sessionFile' = NoFile
           /\ logoutStatus' = "Logged out"
           /\ cyc' = cyc

\* C18: at most one session is persisted, at one fixed path; it changes only by
\* being overwritten wholesale after a successful login or deleted by logout.
\* getExistingSession never modifies or deletes the file, even when it finds
\* the session invalid, and failed logins, build failures, an empty game list
\* and upload failures leave it as it was.
C18_SessionFileFrame == [](C18_OneSession) /\ [][C18_Step]_vars

\* The load found a session the service no longer accepts and a login attempt
\* has failed since: the file still holds that session.
C18_Witness ==
    /\ sessionFile = JSONstringify(OldSession)
    /\ \E c \in Cycles :
          /\ cyc[c].loads = 1 /\ cyc[c].fails > 0
          /\ cyc[c].pc = "interactive"

\* ---------------------------------------------------------------------- C19
\* C19: the text a cycle passes to sendCode is the output of that same cycle's
\* own build, in every interleaving of watch-triggered cycles: no cycle uploads
\* what another cycle's build wrote to ./dist.
C19_UploadsOwnBuild ==
    \A c \in Cycles : cyc[c].sends > 0 => cyc[c].text = c

\* ---------------------------------------------------------------------- C20
Calls(r) == <<r.logins, r.prompts, r.gets, r.sends, r.saves>>

\* A missing entrypoint or a failed build in a watch-triggered cycle has ended
\* the process with its exit code.
C20_Exited ==
    \A c \in Cycles :
        c > 1 =>
            /\ cyc[c].entry = "missing" => (cyc[c].pc = "exited" /\ exitCode = <<ExitNotFound>>)
            /\ cyc[c].built = "threw" => (cyc[c].pc = "exited" /\ exitCode = <<ExitBuildError>>)

\* Once the process has ended no notification is delivered, no cycle starts or
\* moves, and none makes a further login, getGames or sendCode call.
C20_DeadStep ==
    ~Alive =>
        /\ events' = events /\ exitCode' = exitCode /\ main' = main
        /\ \A c \in Cycles : cyc'[c].pc = cyc[c].pc /\ Calls(cyc'[c]) = Calls(cyc[c])

\* C20: in watch mode a missing entrypoint or a build exception in any
\* watch-triggered cycle ends the whole process (exit code 9 or 1), not only
\* that cycle: afterwards no filesystem event starts a cycle and no cycle still
\* in flight makes a further login, getGames or sendCode call.
C20_BuildFailureEndsProcess == [](C20_Exited) /\ [][C20_DeadStep]_vars

\* The third cycle's build threw while the second was waiting for getGames.
C20_Witness ==
    /\ cyc[3].built = "threw" /\ exitCode = <<ExitBuildError>>
    /\ cyc[2].pc = "games"

====
